---- MODULE Spec2Model ----
(***************************************************************************)
(* Model of the CloudOCR-Parser report scripts:                            *)
(*   src/process_document_file_write.py   (single-file mode)               *)
(*   src/batch_processing_large_files.py  (batch mode)                     *)
(* A text is a sequence of one-character strings; a report line is a       *)
(* sequence of string pieces (the pieces of the f-string, formatted); the  *)
(* report file is a sequence of lines.                                     *)
(***************************************************************************)
EXTENDS Integers, Sequences, FiniteSets, TLC

VARIABLES
    text,       \* layout_to_text: the text buffer argument
    layout,     \* layout_to_text: the layout argument
    resolved,   \* layout_to_text: outcome of the call
    rpc,        \* layout_to_text: "idle" | "call" | "return"
    mode,       \* which script runs: "single" | "batch"
    document,   \* the Document being transcribed
    blobs,      \* batch mode: the objects listed under the output prefix
    pc,         \* position of the script
    fopen,      \* whether the handle f of document_output.txt is open
    disk,       \* content of document_output.txt: the writes it received
    opens,      \* how often this run opened document_output.txt
    log,        \* what this run printed
    bi,         \* batch mode: index of the blob the loop is at
    pi,         \* index of the page the page loop is at
    runs,       \* how often the script was started
    prev,       \* the report the previous completed run left, if any
    secrets,    \* what get_vault_secrets returned to this run, if it returned
    ocr         \* how many OCR requests this run submitted

rvars == <<text, layout, resolved, rpc>>

mvars == <<mode, document, blobs, pc, fopen, disk, opens, log, bi, pi, runs, prev,
           secrets, ocr>>

vars == <<text, layout, resolved, rpc,
          mode, document, blobs, pc, fopen, disk, opens, log, bi, pi, runs, prev,
          secrets, ocr>>

----------------------------------------------------------------------------
(* Bounds of the model *)

\* longest text buffer handed to layout_to_text
MaxLen == 3
\* most text segments in one text anchor handed to layout_to_text
MaxSegs == 2
\* most pages of a Document in single-file mode
MaxPages == 2
\* most units of one kind on a page
MaxUnits == 2
\* most objects listed under the output prefix
MaxBlobs == 3
\* how often the script is run on the same input
MaxRuns == 2

----------------------------------------------------------------------------
(* Input domains *)

Alphabet == <<"a", "b", "c", "d", "e", "f">>

\* buffers whose characters are pairwise distinct, so that every slice of a
\* buffer identifies its own bounds
Texts == { SubSeq(Alphabet, 1, n) : n \in 0..MaxLen }

\* segment offsets: the valid ones, one below zero and one past the end
Offsets == (-1)..(MaxLen + 1)

TextSegments == [start_index : Offsets, end_index : Offsets]

SeqsUpTo(S, n) == UNION { [1..k -> S] : k \in 0..n }

\* Layout.text_anchor is an optional message with repeated text_segments
NoAnchor == [present |-> FALSE, text_segments |-> <<>>]

Anchor(segs) == [present |-> TRUE, text_segments |-> segs]

Layout(anchor) == [text_anchor |-> anchor]

Layouts == { Layout(NoAnchor) } \cup
           { Layout(Anchor(s)) : s \in SeqsUpTo(TextSegments, MaxSegs) }

----------------------------------------------------------------------------
(* layout_to_text *)

Min(a, b) == IF a < b THEN a ELSE b

Max(a, b) == IF a > b THEN a ELSE b

\* how a Python slice bound i is normalised against a sequence of length n
SliceIndex(i, n) == IF i < 0 THEN Max(i + n, 0) ELSE Min(i, n)

\* faulty variant: the end bound is taken inclusive
PySliceInclusive(s, start, stop) ==
    LET lo == SliceIndex(start, Len(s))
        hi == SliceIndex(stop + 1, Len(s))
    IN  IF lo < hi THEN SubSeq(s, lo + 1, hi) ELSE <<>>

\* s[start:stop] on a Python str
PySlice(s, start, stop) ==
    LET lo == SliceIndex(start, Len(s))
        hi == SliceIndex(stop, Len(s))
    IN  IF lo < hi THEN SubSeq(s, lo + 1, hi) ELSE <<>>

\* "".join(text[int(start): int(end)] for segment in segments)
RECURSIVE JoinSlices(_, _)
JoinSlices(segs, t) ==
    IF segs = <<>> THEN <<>>
    ELSE PySlice(t, Head(segs).start_index, Head(segs).end_index)
         \o JoinSlices(Tail(segs), t)

\* outcome of a call: it returns a value, or raises
Returned(v) == [raised |-> FALSE, value |-> v]

layout_to_text(l, t) ==
    IF l.text_anchor.present /\ l.text_anchor.text_segments # <<>>
    THEN JoinSlices(l.text_anchor.text_segments, t)
    ELSE <<>>

----------------------------------------------------------------------------
(* Documents: the inputs of the report writer *)

DocText == <<"a", "\n", "b">>

Segment(s, e) == [start_index |-> s, end_index |-> e]

\* three layouts: no anchor, one segment, two segments out of buffer order
UnitLayout(j) ==
    CASE j % 3 = 0 -> Layout(NoAnchor)
      [] j % 3 = 1 -> Layout(Anchor(<<Segment(0, 1)>>))
      [] OTHER     -> Layout(Anchor(<<Segment(2, 3), Segment(0, 2)>>))

\* n blocks, paragraphs, lines or symbols
Units(n, k) == [i \in 1..n |-> [layout |-> UnitLayout(i + k)]]

NoBreak == [present |-> FALSE, type_ |-> 0]

DetectedBreak(ty) == [present |-> TRUE, type_ |-> ty]

BreakOptions == <<NoBreak, DetectedBreak(1), DetectedBreak(0), DetectedBreak(3)>>

NoColor == [present |-> FALSE, red |-> 0, green |-> 0, blue |-> 0, alpha |-> 0]

NoStyle == [present |-> FALSE, font_size |-> 0, font_type |-> "", bold |-> FALSE,
            italic |-> FALSE, underlined |-> FALSE, handwritten |-> FALSE,
            text_color |-> NoColor]

StyleOptions ==
    << NoStyle,
       [NoStyle EXCEPT !.present = TRUE],
       [present |-> TRUE, font_size |-> 12, font_type |-> "Arial", bold |-> TRUE,
        italic |-> FALSE, underlined |-> FALSE, handwritten |-> TRUE,
        text_color |-> [present |-> TRUE, red |-> 1, green |-> 0, blue |-> 0, alpha |-> 1]] >>

Tokens(n, k) ==
    [i \in 1..n |-> [layout         |-> UnitLayout(i + k),
                     detected_break |-> BreakOptions[((i + k) % 4) + 1],
                     style_info     |-> StyleOptions[((i + k) % 3) + 1]]]

Language(code, confidence) == [language_code |-> code, confidence |-> confidence]

LanguageOptions ==
    << <<>>,
       <<Language("en", 987), Language("de", 500)>>,
       <<Language("de", 500), Language("de", 500)>> >>

NoQuality == [present |-> FALSE, quality_score |-> 0, detected_defects |-> <<>>]

Defect(ty, confidence) == [type_ |-> ty, confidence |-> confidence]

QualityOptions ==
    << NoQuality,
       [NoQuality EXCEPT !.present = TRUE],
       [present |-> TRUE, quality_score |-> 873,
        detected_defects |-> <<Defect("quality/defect_noisy", 650),
                               Defect("quality/defect_blurry", 120)>>] >>

VisualTypes == << <<"filled_", "checkbox">>, <<"math_formula">>,
                  <<"table">>, <<"unfilled_", "checkbox">> >>

VisualElements(n, k) ==
    [i \in 1..n |-> [type |-> VisualTypes[((i + k) % 4) + 1], layout |-> UnitLayout(i + k)]]

PageNumbers == {1, 2}

Variants == {0, 1}

\* a page: its number, n fixing the unit counts (every kind takes every count
\* as n varies, and the kinds of one page differ), v fixing the optional parts
Page(pn, n, v) ==
    LET m == MaxUnits + 1
        k == pn + v
    IN  [page_number          |-> pn,
         dimension            |-> [width |-> 612, height |-> 792],
         detected_languages   |-> LanguageOptions[(k % 3) + 1],
         blocks               |-> Units(n, k),
         paragraphs           |-> Units((n + 1) % m, k + 1),
         lines                |-> Units((n + 2) % m, k + 2),
         tokens               |-> Tokens(n, k),
         symbols              |-> Units((n + 1) % m, k),
         image_quality_scores |-> QualityOptions[((k + n) % 3) + 1],
         visual_elements      |-> VisualElements((n + 2) % m, k)]

PageSet == { Page(pn, n, v) : pn \in PageNumbers, n \in 0..MaxUnits, v \in Variants }

Document(t, pages) == [text |-> t, pages |-> pages]

Documents == { Document(DocText, pages) : pages \in SeqsUpTo(PageSet, MaxPages) }

NoDocument == Document(<<>>, <<>>)

\* batch mode: the output prefix and the listed objects
Prefix == <<"out/">>

Blob(name, valid, doc) == [name |-> name, content |-> [valid |-> valid, document |-> doc]]

BlobSet ==
    { Blob(<<"out/", "bad", ".json">>, FALSE, NoDocument),
      Blob(<<"out/", "d0", ".json">>, TRUE, Document(DocText, <<>>)),
      Blob(<<"out/", "d1", ".json">>, TRUE, Document(DocText, <<Page(1, 1, 0)>>)),
      Blob(<<"out/", "d2", ".json">>, TRUE, Document(DocText, <<Page(2, 2, 1), Page(1, 0, 0)>>)),
      Blob(<<"out/", "notes", ".txt">>, TRUE, Document(DocText, <<Page(1, 1, 0)>>)),
      Blob(<<"out/", "generated_workspace", "/", "w", ".json">>, TRUE,
           Document(DocText, <<Page(1, 1, 0)>>)) }

----------------------------------------------------------------------------
(* Formatting: what the f-strings of the writers produce *)

Digits == <<"0", "1", "2", "3", "4", "5", "6", "7", "8", "9">>

\* str(n) of a natural number, digit by digit
RECURSIVE ToStr(_)
ToStr(n) == IF n < 10 THEN <<Digits[n + 1]>>
            ELSE ToStr(n \div 10) \o <<Digits[(n % 10) + 1]>>

\* str(x) of a float holding a whole number
FloatStr(n) == ToStr(n) \o <<".", "0">>

\* f"{x:.1%}" of a fraction x held in thousandths
Percent(m) == ToStr(m \div 10) \o <<".", Digits[(m % 10) + 1], "%">>

BoolStr(b) == IF b THEN "True" ELSE "False"

\* repr(s) of a str without quote characters: quoted, control characters escaped
RECURSIVE Escaped(_)
Escaped(s) == IF s = <<>> THEN <<>>
              ELSE (IF Head(s) = "\n" THEN <<"\\", "n">> ELSE <<Head(s)>>)
                   \o Escaped(Tail(s))

Repr(s) == <<"'">> \o Escaped(s) \o <<"'">>

\* one f.write(...) call whose string ends with a newline
Line(pieces) == pieces \o <<"\n">>

----------------------------------------------------------------------------
(* Truthiness of the upstream message objects, as the `if x:` tests see it: *)
(* a message is true iff one of its fields holds a non-default value        *)

BreakIsTrue(detected_break) == detected_break.present /\ detected_break.type_ # 0

ColorIsTrue(c) == c.present /\ (c.red # 0 \/ c.green # 0 \/ c.blue # 0 \/ c.alpha # 0)

StyleIsTrue(si) ==
    /\ si.present
    /\ \/ si.font_size # 0 \/ si.font_type # "" \/ si.bold \/ si.italic
       \/ si.underlined \/ si.handwritten \/ ColorIsTrue(si.text_color)

QualityIsTrue(iqs) ==
    iqs.present /\ (iqs.quality_score # 0 \/ iqs.detected_defects # <<>>)

\* DetectedBreak.Type: the names of the enum values 0..3
BreakTypeName == <<"TYPE_UNSPECIFIED", "SPACE", "WIDE_SPACE", "HYPHEN">>

----------------------------------------------------------------------------
(* The writers: each returns the f.write calls it makes, in order *)

write_page_dimensions(dimension) ==
    << Line(<<"    Width: ">> \o FloatStr(dimension.width)),
       Line(<<"    Height: ">> \o FloatStr(dimension.height)) >>

write_detected_languages(detected_languages) ==
    << Line(<<"    Detected languages:">>) >> \o
    [i \in DOMAIN detected_languages |->
        Line(<<"        ", detected_languages[i].language_code, " (">>
             \o Percent(detected_languages[i].confidence) \o <<" confidence)">>)]

\* faulty variant: the last line renders index 0 again instead of index n-1
FirstLastBothFirst(units, t, countLabel, firstLabel, lastLabel, noneLine) ==
    << Line(<<"    ">> \o ToStr(Len(units)) \o <<countLabel>>) >> \o
    (IF Len(units) > 0
     THEN << Line(<<firstLabel>> \o Repr(layout_to_text(units[1].layout, t))),
             Line(<<lastLabel>> \o Repr(layout_to_text(units[1].layout, t))) >>
     ELSE << Line(<<noneLine>>) >>)

\* faulty variant: nothing is written for an empty list
FirstLastSilent(units, t, countLabel, firstLabel, lastLabel, noneLine) ==
    << Line(<<"    ">> \o ToStr(Len(units)) \o <<countLabel>>) >> \o
    (IF Len(units) > 0
     THEN << Line(<<firstLabel>> \o Repr(layout_to_text(units[1].layout, t))),
             Line(<<lastLabel>> \o Repr(layout_to_text(units[Len(units)].layout, t))) >>
     ELSE <<>>)

\* the first/last pattern shared by write_blocks, write_paragraphs, write_lines
\* and write_symbols
FirstLast(units, t, countLabel, firstLabel, lastLabel, noneLine) ==
    << Line(<<"    ">> \o ToStr(Len(units)) \o <<countLabel>>) >> \o
    (IF Len(units) > 0
     THEN << Line(<<firstLabel>> \o Repr(layout_to_text(units[1].layout, t))),
             Line(<<lastLabel>> \o Repr(layout_to_text(units[Len(units)].layout, t))) >>
     ELSE << Line(<<noneLine>>) >>)

write_blocks(blocks, t) ==
    FirstLast(blocks, t, " blocks detected:", "        First text block: ",
              "        Last text block: ", "        No blocks detected.")

write_paragraphs(paragraphs, t) ==
    FirstLast(paragraphs, t, " paragraphs detected:", "        First paragraph text: ",
              "        Last paragraph text: ", "        No paragraphs detected.")

write_lines(lines, t) ==
    FirstLast(lines, t, " lines detected:", "        First line text: ",
              "        Last line text: ", "        No lines detected.")

write_symbols(symbols, t) ==
    FirstLast(symbols, t, " symbols detected:", "        First symbol text: ",
              "        Last symbol text: ", "        No symbols detected.")

write_style_info(si) ==
    << Line(<<"           Font Size: ">> \o ToStr(si.font_size) \o <<"pt">>),
       Line(<<"           Font Type: ", si.font_type>>),
       Line(<<"           Bold: ", BoolStr(si.bold)>>),
       Line(<<"           Italic: ", BoolStr(si.italic)>>),
       Line(<<"           Underlined: ", BoolStr(si.underlined)>>),
       Line(<<"           Handwritten: ", BoolStr(si.handwritten)>>),
       Line(<<"           Text Color (RGBa): ">> \o FloatStr(si.text_color.red) \o <<", ">>
            \o FloatStr(si.text_color.green) \o <<", ">>
            \o FloatStr(si.text_color.blue) \o <<", ">>
            \o FloatStr(si.text_color.alpha)) >>

\* tokens[i].detected_break.type_.name if tokens[i].detected_break else "Unknown"
BreakType(token) ==
    IF BreakIsTrue(token.detected_break)
    THEN <<BreakTypeName[token.detected_break.type_ + 1]>>
    ELSE <<"Unknown">>

\* the text, break type and optional style block of one boundary token
TokenLines(token, t, textLabel, breakLabel) ==
    << Line(<<textLabel>> \o Repr(layout_to_text(token.layout, t))),
       Line(<<breakLabel>> \o Repr(BreakType(token))) >> \o
    (IF StyleIsTrue(token.style_info) THEN write_style_info(token.style_info) ELSE <<>>)

write_tokens(tokens, t) ==
    << Line(<<"    ">> \o ToStr(Len(tokens)) \o <<" tokens detected:">>) >> \o
    (IF Len(tokens) > 0
     THEN TokenLines(tokens[1], t, "        First token text: ",
                     "        First token break type: ")
          \o TokenLines(tokens[Len(tokens)], t, "        Last token text: ",
                        "        Last token break type: ")
     ELSE << Line(<<"        No tokens detected.">>) >>)

write_image_quality_scores(iqs) ==
    << Line(<<"    Quality score: ">> \o Percent(iqs.quality_score)),
       Line(<<"    Detected defects:">>) >> \o
    [i \in DOMAIN iqs.detected_defects |->
        Line(<<"        ", iqs.detected_defects[i].type_, ": ">>
             \o Percent(iqs.detected_defects[i].confidence))]

\* faulty variant: x.type == "checkbox"
IsCheckboxExact(x) == x.type = <<"checkbox">>

\* "checkbox" in x.type, the type tag held as the pieces it is made of
IsCheckbox(x) == \E i \in DOMAIN x.type : x.type[i] = "checkbox"

\* x.type == "math_formula"
IsMath(x) == x.type = <<"math_formula">>

write_visual_elements(visual_elements, t) ==
    LET checkboxes   == SelectSeq(visual_elements, IsCheckbox)
        math_symbols == SelectSeq(visual_elements, IsMath)
    IN  (IF checkboxes # <<>>
         THEN << Line(<<"    ">> \o ToStr(Len(checkboxes)) \o <<" checkboxes detected:">>),
                 Line(<<"        First checkbox: ">> \o Repr(checkboxes[1].type)),
                 Line(<<"        Last checkbox: ">>
                      \o Repr(checkboxes[Len(checkboxes)].type)) >>
         ELSE << Line(<<"        No checkboxes detected.">>) >>)
        \o
        (IF math_symbols # <<>>
         THEN << Line(<<"    ">> \o ToStr(Len(math_symbols)) \o <<" math symbols detected:">>),
                 Line(<<"        First math symbol: ">>
                      \o Repr(layout_to_text(math_symbols[1].layout, t))) >>
         ELSE << Line(<<"        No math symbols detected.">>) >>)

----------------------------------------------------------------------------
(* The report of one Document *)

Preamble(doc) ==
    << Line(<<"Full document text: ">> \o doc.text),
       <<"There are ">> \o ToStr(Len(doc.pages))
           \o <<" page(s) in this document.", "\n", "\n">> >>

\* faulty variant: the page number is recomputed from the loop position
PageHeaderByIndex(page) == Line(<<"Page ">> \o ToStr(pi) \o <<":">>)

PageHeader(page) == Line(<<"Page ">> \o ToStr(page.page_number) \o <<":">>)

\* faulty variant: the paragraphs are written before the blocks
PageWritesParagraphsFirst(page, t) ==
    <<PageHeader(page)>>
    \o write_page_dimensions(page.dimension)
    \o write_detected_languages(page.detected_languages)
    \o write_paragraphs(page.paragraphs, t)
    \o write_blocks(page.blocks, t)
    \o write_lines(page.lines, t)
    \o write_tokens(page.tokens, t)
    \o (IF page.symbols # <<>> THEN write_symbols(page.symbols, t) ELSE <<>>)
    \o (IF QualityIsTrue(page.image_quality_scores)
        THEN write_image_quality_scores(page.image_quality_scores) ELSE <<>>)
    \o (IF page.visual_elements # <<>>
        THEN write_visual_elements(page.visual_elements, t) ELSE <<>>)

\* the body of `for page in document.pages`
PageWrites(page, t) ==
    <<PageHeader(page)>>
    \o write_page_dimensions(page.dimension)
    \o write_detected_languages(page.detected_languages)
    \o write_blocks(page.blocks, t)
    \o write_paragraphs(page.paragraphs, t)
    \o write_lines(page.lines, t)
    \o write_tokens(page.tokens, t)
    \o (IF page.symbols # <<>> THEN write_symbols(page.symbols, t) ELSE <<>>)
    \o (IF QualityIsTrue(page.image_quality_scores)
        THEN write_image_quality_scores(page.image_quality_scores) ELSE <<>>)
    \o (IF page.visual_elements # <<>>
        THEN write_visual_elements(page.visual_elements, t) ELSE <<>>)

----------------------------------------------------------------------------
(* The output file: `with open("document_output.txt", "w") as f` *)

\* faulty variant: open(..., "a"), the old content is kept
OpenForAppending ==
    /\ fopen' = TRUE
    /\ disk' = disk
    /\ opens' = opens + 1

\* open(..., "w"): the file is truncated
OpenForWriting ==
    /\ fopen' = TRUE
    /\ disk' = <<>>
    /\ opens' = opens + 1

\* faulty variant: the file is closed by hand after the loop, not by a with block
ExitWithoutClosingOnError(outcome) ==
    /\ fopen' = (outcome = "error")
    /\ pc' = outcome

\* leaving the with block, normally ("done") or by an exception ("error"),
\* closes the file
ExitWith(outcome) ==
    /\ fopen' = FALSE
    /\ pc' = outcome

----------------------------------------------------------------------------
(* Batch mode: which listed objects are result files *)

EndsWith(name, suffix) ==
    /\ Len(name) >= Len(suffix)
    /\ SubSeq(name, Len(name) - Len(suffix) + 1, Len(name)) = suffix

StartsWith(name, prefix) ==
    /\ Len(name) >= Len(prefix)
    /\ SubSeq(name, 1, Len(prefix)) = prefix

Contains(name, piece) == \E i \in DOMAIN name : name[i] = piece

\* faulty variant: the extension is not tested
IsResultFileAnyExtension(name) ==
    /\ ~Contains(name, "generated_workspace")
    /\ StartsWith(name, Prefix)

IsResultFile(name) ==
    /\ EndsWith(name, <<".json">>)
    /\ ~Contains(name, "generated_workspace")
    /\ StartsWith(name, Prefix)

Processing(name) == <<"Processing output file: ">> \o name

ErrorParsing(name) == <<"Error parsing ">> \o name \o <<": ", "<exception>">>

Skipping(name) == <<"Skipping non-Document file: ">> \o name

\* faulty variant: `break`, the rest of the listing is dropped
BreakAfterError ==
    /\ bi' = Len(blobs) + 1
    /\ pc' = "blobs"

\* `continue` in the except branch: on to the next listed object
ContinueAfterError ==
    /\ bi' = bi + 1
    /\ pc' = "blobs"

----------------------------------------------------------------------------
(* The scripts *)

ResolverIdle ==
    /\ text = <<>>
    /\ layout = Layout(NoAnchor)
    /\ resolved = Returned(<<>>)
    /\ rpc = "idle"

\* a report an earlier use of the script may have left on disk
StaleReport == << Line(<<"Full document text: ", "z">>) >>

NoReport == [set |-> FALSE, content |-> <<>>]

svars == <<secrets, ocr>>

\* Python's None, and a str value, as what a name may hold
None == [none |-> TRUE, value |-> ""]

Str(v) == [none |-> FALSE, value |-> v]

\* bool(x) of None or a str
Truthy(x) == ~x.none /\ x.value # ""

\* one read_secret_version call and the ['data']['data']['id'] lookup on its
\* response: it raises, or yields the stored id, which may be empty
ReadOutcomes == { [raised |-> TRUE, id |-> None],
                  [raised |-> FALSE, id |-> Str("")],
                  [raised |-> FALSE, id |-> Str("id-1")] }

\* the try block of get_vault_secrets and its except branch
get_vault_secrets(project_read, processor_read) ==
    IF project_read.raised \/ processor_read.raised
    THEN <<None, None>>
    ELSE <<project_read.id, processor_read.id>>

\* what get_vault_secrets prints on the authenticated path
VaultPrints(project_read, processor_read) ==
    << <<"Successfully authenticated with Vault! Token: ", "<token>">>,
       <<"Is client authenticated: ", "True">> >>
    \o (IF project_read.raised \/ processor_read.raised
        THEN << <<"An error occurred: ", "<exception>">> >>
        ELSE <<>>)

NoSecrets == [returned |-> FALSE, project_id |-> None, processor_id |-> None]

Got(pair) == [returned |-> TRUE, project_id |-> pair[1], processor_id |-> pair[2]]

\* faulty variant: `if project_id`
OnlyProjectTruthy(project_id, processor_id) == Truthy(project_id)

\* `if project_id and processor_id`
BothTruthy(project_id, processor_id) == Truthy(project_id) /\ Truthy(processor_id)

\* what the script prints around the OCR request
OcrPrints ==
    IF mode = "batch"
    THEN << <<"Waiting for operation to complete...">>, <<"Batch processing complete.">> >>
    ELSE <<>>

Init ==
    /\ ResolverIdle
    /\ mode \in {"single", "batch"}
    /\ IF mode = "single"
       THEN document \in Documents /\ blobs = <<>>
       ELSE document = NoDocument /\ blobs \in SeqsUpTo(BlobSet, MaxBlobs)
    /\ pc = "vault"
    /\ fopen = FALSE
    /\ disk \in {<<>>, StaleReport}
    /\ opens = 0
    /\ log = <<>>
    /\ bi = 0
    /\ pi = 0
    /\ runs = 1
    /\ prev = NoReport
    /\ secrets = NoSecrets
    /\ ocr = 0

\* client.auth.approle.login raises: the exception ends the script
\* (a later run is started in the environment of the first, where the Vault
\* answered: Rerun is taken only after a run that got its secrets)
LoginRaises ==
    /\ pc = "vault"
    /\ runs = 1
    /\ pc' = "aborted"
    /\ UNCHANGED <<mode, document, blobs, fopen, disk, opens, log, bi, pi, runs, prev, rvars,
                   svars>>

\* the authentication response holds no 'auth': exit()
LoginWithoutAuth ==
    /\ pc = "vault"
    /\ runs = 1
    /\ log' = Append(log, <<"Failed to authenticate with Vault!">>)
    /\ pc' = "exited"
    /\ UNCHANGED <<mode, document, blobs, fopen, disk, opens, bi, pi, runs, prev, rvars,
                   svars>>

\* project_id, processor_id = get_vault_secrets(), authenticated, and the
\* test `if project_id and processor_id` passes
GetVaultSecrets ==
    /\ pc = "vault"
    /\ \E project_read, processor_read \in ReadOutcomes :
          LET got == Got(get_vault_secrets(project_read, processor_read))
          IN  /\ BothTruthy(got.project_id, got.processor_id)
              /\ secrets' = got
              /\ log' = log \o VaultPrints(project_read, processor_read)
    /\ pc' = "main"
    /\ UNCHANGED <<mode, document, blobs, fopen, disk, opens, bi, pi, runs, prev, rvars, ocr>>

\* project_id, processor_id = get_vault_secrets(), authenticated, and the
\* else branch of `if project_id and processor_id`
SecretsMissing ==
    /\ pc = "vault"
    /\ runs = 1
    /\ \E project_read, processor_read \in ReadOutcomes :
          LET got == Got(get_vault_secrets(project_read, processor_read))
          IN  /\ ~BothTruthy(got.project_id, got.processor_id)
              /\ secrets' = got
              /\ log' = log \o VaultPrints(project_read, processor_read)
                            \o << <<"Failed to retrieve Vault secrets.">> >>
    /\ pc' = "failed"
    /\ UNCHANGED <<mode, document, blobs, fopen, disk, opens, bi, pi, runs, prev, rvars, ocr>>

\* parse_arguments exits or the input file cannot be read: no request is sent
ArgumentsFail ==
    /\ pc = "main"
    /\ pc' = "aborted"
    /\ UNCHANGED <<mode, document, blobs, fopen, disk, opens, log, bi, pi, runs, prev, rvars,
                   svars>>

\* the OCR request is sent and raises, or what follows it before the report is
\* opened raises
OcrFails ==
    /\ pc = "main"
    /\ ocr' = ocr + 1
    /\ pc' = "aborted"
    /\ UNCHANGED <<mode, document, blobs, fopen, disk, opens, log, bi, pi, runs, prev, rvars,
                   secrets>>

\* the OCR request is sent and answered: process_document returns the
\* Document, or the batch operation completes
SubmitOcr ==
    /\ pc = "main"
    /\ ocr' = ocr + 1
    /\ log' = log \o OcrPrints
    /\ pc' = "start"
    /\ UNCHANGED <<mode, document, blobs, fopen, disk, opens, bi, pi, runs, prev, rvars,
                   secrets>>

\* single-file mode: the with statement is entered
OpenSingle ==
    /\ mode = "single"
    /\ pc = "start"
    /\ OpenForWriting
    /\ pc' = "preamble"
    /\ UNCHANGED <<mode, document, blobs, log, bi, pi, runs, prev, rvars, svars>>

\* batch mode: the with statement is entered, the loop over the listing starts
OpenBatch ==
    /\ mode = "batch"
    /\ pc = "start"
    /\ OpenForWriting
    /\ pc' = "blobs"
    /\ bi' = 1
    /\ UNCHANGED <<mode, document, blobs, log, pi, runs, prev, rvars, svars>>

\* the two writes before the page loop
WritePreamble ==
    /\ pc = "preamble"
    /\ disk' = disk \o Preamble(document)
    /\ pc' = "pages"
    /\ pi' = 1
    /\ UNCHANGED <<mode, document, blobs, fopen, opens, log, bi, runs, prev, rvars, svars>>

\* one iteration of the page loop
WritePage ==
    /\ pc = "pages"
    /\ pi <= Len(document.pages)
    /\ disk' = disk \o PageWrites(document.pages[pi], document.text)
    /\ pi' = pi + 1
    /\ UNCHANGED <<mode, document, blobs, pc, fopen, opens, log, bi, runs, prev, rvars, svars>>

\* f.write raises (OSError): the exception leaves the with block
WriteFails ==
    /\ \/ pc = "preamble"
       \/ pc = "pages" /\ pi <= Len(document.pages)
    /\ ExitWith("error")
    /\ UNCHANGED <<mode, document, blobs, disk, opens, log, bi, pi, runs, prev, rvars, svars>>

\* single-file mode: the page loop is exhausted, the with block ends
CloseSingle ==
    /\ mode = "single"
    /\ pc = "pages"
    /\ pi > Len(document.pages)
    /\ ExitWith("done")
    /\ UNCHANGED <<mode, document, blobs, disk, opens, log, bi, pi, runs, prev, rvars, svars>>

\* batch mode: the object's name fails the test, the else branch logs it
SkipBlob ==
    /\ mode = "batch"
    /\ pc = "blobs"
    /\ bi <= Len(blobs)
    /\ ~IsResultFile(blobs[bi].name)
    /\ log' = Append(log, Skipping(blobs[bi].name))
    /\ bi' = bi + 1
    /\ UNCHANGED <<mode, document, blobs, pc, fopen, disk, opens, pi, runs, prev, rvars, svars>>

\* batch mode: blob.download_as_bytes() raises, outside the try
DownloadFails ==
    /\ mode = "batch"
    /\ pc = "blobs"
    /\ bi <= Len(blobs)
    /\ IsResultFile(blobs[bi].name)
    /\ log' = Append(log, Processing(blobs[bi].name))
    /\ ExitWith("error")
    /\ UNCHANGED <<mode, document, blobs, disk, opens, bi, pi, runs, prev, rvars, svars>>

\* batch mode: Document.from_json raises, the except branch logs and continues
ParseFails ==
    /\ mode = "batch"
    /\ pc = "blobs"
    /\ bi <= Len(blobs)
    /\ IsResultFile(blobs[bi].name)
    /\ ~blobs[bi].content.valid
    /\ log' = log \o <<Processing(blobs[bi].name), ErrorParsing(blobs[bi].name)>>
    /\ ContinueAfterError
    /\ UNCHANGED <<mode, document, blobs, fopen, disk, opens, pi, runs, prev, rvars, svars>>

\* batch mode: Document.from_json returns the document
ParseOk ==
    /\ mode = "batch"
    /\ pc = "blobs"
    /\ bi <= Len(blobs)
    /\ IsResultFile(blobs[bi].name)
    /\ blobs[bi].content.valid
    /\ document' = blobs[bi].content.document
    /\ log' = Append(log, Processing(blobs[bi].name))
    /\ pc' = "preamble"
    /\ UNCHANGED <<mode, blobs, fopen, disk, opens, bi, pi, runs, prev, rvars, svars>>

\* batch mode: the page loop is exhausted, the loop over the listing goes on
NextBlob ==
    /\ mode = "batch"
    /\ pc = "pages"
    /\ pi > Len(document.pages)
    /\ bi' = bi + 1
    /\ pc' = "blobs"
    /\ UNCHANGED <<mode, document, blobs, fopen, disk, opens, log, pi, runs, prev, rvars, svars>>

\* batch mode: the listing is exhausted, the with block ends
CloseBatch ==
    /\ mode = "batch"
    /\ pc = "blobs"
    /\ bi > Len(blobs)
    /\ ExitWith("done")
    /\ UNCHANGED <<mode, document, blobs, disk, opens, log, bi, pi, runs, prev, rvars, svars>>

\* the script is started again on the same input
Rerun ==
    /\ pc \in {"done", "error"}
    /\ runs < MaxRuns
    /\ runs' = runs + 1
    /\ prev' = IF pc = "done" THEN [set |-> TRUE, content |-> disk] ELSE prev
    /\ pc' = "vault"
    /\ opens' = 0
    /\ log' = <<>>
    /\ bi' = 0
    /\ pi' = 0
    /\ document' = IF mode = "batch" THEN NoDocument ELSE document
    /\ secrets' = NoSecrets
    /\ ocr' = 0
    /\ UNCHANGED <<mode, blobs, fopen, disk, rvars>>

Next ==
    \/ LoginRaises
    \/ LoginWithoutAuth
    \/ GetVaultSecrets
    \/ SecretsMissing
    \/ ArgumentsFail
    \/ OcrFails
    \/ SubmitOcr
    \/ OpenSingle
    \/ OpenBatch
    \/ WritePreamble
    \/ WritePage
    \/ WriteFails
    \/ CloseSingle
    \/ SkipBlob
    \/ DownloadFails
    \/ ParseFails
    \/ ParseOk
    \/ NextBlob
    \/ CloseBatch
    \/ Rerun

Spec == Init /\ [][Next]_vars

----------------------------------------------------------------------------
(* Specification of the offset resolver alone *)

\* the scripts are not running
ScriptsIdle ==
    /\ mode = "single"
    /\ document = NoDocument
    /\ blobs = <<>>
    /\ pc = "idle"
    /\ fopen = FALSE
    /\ disk = <<>>
    /\ opens = 0
    /\ log = <<>>
    /\ bi = 0
    /\ pi = 0
    /\ runs = 0
    /\ prev = NoReport
    /\ secrets = NoSecrets
    /\ ocr = 0

InitResolve ==
    /\ text \in Texts
    /\ layout \in Layouts
    /\ resolved = Returned(<<>>)
    /\ rpc = "call"
    /\ ScriptsIdle

\* one call of layout_to_text: slicing a str never raises
Resolve ==
    /\ rpc = "call"
    /\ resolved' = Returned(layout_to_text(layout, text))
    /\ rpc' = "return"
    /\ UNCHANGED <<text, layout, mvars>>

NextResolve == Resolve

SpecResolve == InitResolve /\ [][NextResolve]_vars

----------------------------------------------------------------------------
(* Claims about the offset resolver *)

ValidSegment(seg, t) ==
    0 <= seg.start_index /\ seg.start_index <= seg.end_index /\ seg.end_index <= Len(t)

AllSegmentsValid == \A i \in DOMAIN layout.text_anchor.text_segments :
                        ValidSegment(layout.text_anchor.text_segments[i], text)

\* number of characters named by the first k segments
RECURSIVE CoveredBefore(_, _)
CoveredBefore(segs, k) ==
    IF k = 0 THEN 0
    ELSE CoveredBefore(segs, k - 1) + (segs[k].end_index - segs[k].start_index)

\* C1: for valid segments the result is, character by character, the buffer
\* slices b[start:end] laid end to end in segment order; a layout with no text
\* anchor or no segments resolves to the empty text.
ResolverConcatenatesSlices ==
    (rpc = "return" /\ AllSegmentsValid) =>
        LET segs == layout.text_anchor.text_segments
            out  == resolved.value
        IN  /\ ~resolved.raised
            /\ Len(out) = CoveredBefore(segs, Len(segs))
            /\ \A i \in DOMAIN segs :
                 \A j \in 1..(segs[i].end_index - segs[i].start_index) :
                     out[CoveredBefore(segs, i - 1) + j] = text[segs[i].start_index + j]
            /\ (~layout.text_anchor.present \/ segs = <<>>) => out = <<>>

\* C1 witness: two valid non-empty segments, out of buffer order, were resolved
ResolvedTwoSegments ==
    /\ rpc = "return"
    /\ AllSegmentsValid
    /\ Len(layout.text_anchor.text_segments) = 2
    /\ layout.text_anchor.text_segments[1].start_index
           > layout.text_anchor.text_segments[2].start_index
    /\ Len(resolved.value) = 3

SegmentOutOfRange(seg, t) ==
    seg.start_index > seg.end_index \/ seg.end_index > Len(t)

\* C2: a segment whose offsets fall outside the buffer makes the resolver fail
\* with an error; it never returns a clamped, shortened or empty slice.
OutOfRangeSegmentRaises ==
    (rpc = "return" /\ \E i \in DOMAIN layout.text_anchor.text_segments :
                          SegmentOutOfRange(layout.text_anchor.text_segments[i], text))
        => resolved.raised

----------------------------------------------------------------------------
(* Reading a report back: helpers of the claims about the report writer *)

First(w) == w[1]

\* the last piece of a write before its newline
LastPiece(w) == w[Len(w) - 1]

IsPageHeader(w) == First(w) = "Page "

IsDocumentStart(w) == First(w) = "Full document text: "

IsLanguageLine(w) == First(w) = "        " /\ LastPiece(w) = " confidence)"

IsDefectLine(w) == First(w) = "        " /\ w[3] = ": "

Has(sq, w) == \E i \in DOMAIN sq : sq[i] = w

HasFirst(sq, label) == \E i \in DOMAIN sq : First(sq[i]) = label

HasLast(sq, label) == \E i \in DOMAIN sq : LastPiece(sq[i]) = label

\* a page of the current document has been written and nothing after it
PageJustWritten == pc = "pages" /\ pi > 1

JustWritten == document.pages[pi - 1]

LastHeaderIndex ==
    CHOOSE i \in DOMAIN disk :
        IsPageHeader(disk[i]) /\ \A j \in (i + 1)..Len(disk) : ~IsPageHeader(disk[j])

\* the writes of the page written last
LastPageWrites == SubSeq(disk, LastHeaderIndex, Len(disk))

RECURSIVE Flatten(_)
Flatten(ss) == IF ss = <<>> THEN <<>> ELSE Head(ss) \o Flatten(Tail(ss))

\* the whole report of one document
Transcript(doc) ==
    Preamble(doc) \o Flatten([i \in DOMAIN doc.pages |-> PageWrites(doc.pages[i], doc.text)])

Decodes(blob) == IsResultFile(blob.name) /\ blob.content.valid

FailsToDecode(blob) == IsResultFile(blob.name) /\ ~blob.content.valid

\* batch mode: the listed objects the loop has finished with
Handled == SubSeq(blobs, 1, bi - 1)

IsErrorLine(l) == First(l) = "Error parsing "

NamedIn(l, name) == SubSeq(l, 2, Len(name) + 1) = name

----------------------------------------------------------------------------
(* Claims about the report writer *)

\* C3: in batch mode, whenever the loop stands between two listed objects or
\* has ended, the report is exactly the transcripts of the handled files that
\* decode, in listing order; each handled file that fails to decode has its
\* own "Error parsing <name>" log line, in order, and added nothing; and the
\* run ends normally only after the whole listing was handled.
BatchIsolatesParseFailures ==
    (mode = "batch" /\ pc \in {"blobs", "done"}) =>
        LET good == SelectSeq(Handled, Decodes)
            bad  == SelectSeq(Handled, FailsToDecode)
            errs == SelectSeq(log, IsErrorLine)
        IN  /\ disk = Flatten([i \in DOMAIN good |-> Transcript(good[i].content.document)])
            /\ Len(errs) = Len(bad)
            /\ \A i \in DOMAIN bad : NamedIn(errs[i], bad[i].name)
            /\ pc = "done" => bi = Len(blobs) + 1

\* C3 witness: three listed result files, the second corrupt, the run ended
\* normally with the first and the third transcribed
SecondOfThreeCorrupt ==
    /\ mode = "batch"
    /\ pc = "done"
    /\ Len(blobs) = 3
    /\ Decodes(blobs[1]) /\ FailsToDecode(blobs[2]) /\ Decodes(blobs[3])
    /\ blobs[1].content.document.pages # <<>>
    /\ blobs[3].content.document.pages # <<>>
    /\ blobs[1] # blobs[3]
    /\ Len(SelectSeq(disk, IsDocumentStart)) = 2
    /\ Len(SelectSeq(log, IsErrorLine)) = 1

NoneLineOf == [blocks     |-> Line(<<"        No blocks detected.">>),
               paragraphs |-> Line(<<"        No paragraphs detected.">>),
               lines      |-> Line(<<"        No lines detected.">>),
               tokens     |-> Line(<<"        No tokens detected.">>),
               symbols    |-> Line(<<"        No symbols detected.">>),
               checkboxes |-> Line(<<"        No checkboxes detected.">>),
               math       |-> Line(<<"        No math symbols detected.">>)]

FirstLabelOf == [blocks     |-> "        First text block: ",
                 paragraphs |-> "        First paragraph text: ",
                 lines      |-> "        First line text: ",
                 tokens     |-> "        First token text: ",
                 symbols    |-> "        First symbol text: ",
                 checkboxes |-> "        First checkbox: ",
                 math       |-> "        First math symbol: "]

LastLabelOf == [blocks     |-> "        Last text block: ",
                paragraphs |-> "        Last paragraph text: ",
                lines      |-> "        Last line text: ",
                tokens     |-> "        Last token text: ",
                symbols    |-> "        Last symbol text: ",
                checkboxes |-> "        Last checkbox: ",
                math       |-> "        Last math symbol: "]

CountLabelOf == [blocks     |-> " blocks detected:",
                 paragraphs |-> " paragraphs detected:",
                 lines      |-> " lines detected:",
                 tokens     |-> " tokens detected:",
                 symbols    |-> " symbols detected:",
                 checkboxes |-> " checkboxes detected:",
                 math       |-> " math symbols detected:"]

\* the number of units of a kind on a page
UnitCount(page, kind) ==
    CASE kind = "blocks"     -> Len(page.blocks)
      [] kind = "paragraphs" -> Len(page.paragraphs)
      [] kind = "lines"      -> Len(page.lines)
      [] kind = "tokens"     -> Len(page.tokens)
      [] kind = "symbols"    -> Len(page.symbols)
      [] kind = "checkboxes" ->
            Cardinality({i \in DOMAIN page.visual_elements :
                            \E j \in DOMAIN page.visual_elements[i].type :
                                page.visual_elements[i].type[j] = "checkbox"})
      [] OTHER ->
            Cardinality({i \in DOMAIN page.visual_elements :
                            page.visual_elements[i].type = <<"math_formula">>})

\* the page's part of the report shows "No <kind> detected." and no first or
\* last line of the kind
RendersNone(w, kind) ==
    /\ Has(w, NoneLineOf[kind])
    /\ ~HasFirst(w, FirstLabelOf[kind])
    /\ ~HasFirst(w, LastLabelOf[kind])

\* the page's part of the report holds no line about the kind at all
RendersNothing(w, kind) ==
    /\ ~Has(w, NoneLineOf[kind])
    /\ ~HasLast(w, CountLabelOf[kind])
    /\ ~HasFirst(w, FirstLabelOf[kind])
    /\ ~HasFirst(w, LastLabelOf[kind])

AllKinds == {"blocks", "paragraphs", "lines", "tokens", "symbols", "checkboxes", "math"}

\* C4 as stated: for each of the seven kinds, a page with zero units of the
\* kind gets the line "No <kind> detected." instead of first/last lines.
ZeroUnitsRenderNoneLine ==
    PageJustWritten =>
        \A kind \in AllKinds :
            UnitCount(JustWritten, kind) = 0 => RendersNone(LastPageWrites, kind)

\* C4 amended: blocks, paragraphs, lines and tokens with zero units get the
\* line "No <kind> detected." instead of first/last lines; checkboxes and math
\* symbols get it when the page has a visual element but none of the kind, and
\* no line at all when the page has no visual element; a page with zero symbols
\* gets no line about symbols at all.
ZeroUnitsRenderNoneLineWhenSectionWritten ==
    PageJustWritten =>
        LET page == JustWritten
            w    == LastPageWrites
        IN  /\ \A kind \in {"blocks", "paragraphs", "lines", "tokens"} :
                 UnitCount(page, kind) = 0 => RendersNone(w, kind)
            /\ \A kind \in {"checkboxes", "math"} :
                 UnitCount(page, kind) = 0 =>
                    IF page.visual_elements # <<>>
                    THEN RendersNone(w, kind)
                    ELSE RendersNothing(w, kind)
            /\ UnitCount(page, "symbols") = 0 => RendersNothing(w, "symbols")

\* C4 witness: after a first page with no block and no token, a second page
\* was written that has no symbol and whose only visual element is neither a
\* checkbox nor a formula
ZeroBlocksAndNoCheckboxWritten ==
    /\ PageJustWritten
    /\ pi = 3
    /\ document.pages[1].blocks = <<>>
    /\ document.pages[1].tokens = <<>>
    /\ document.pages[1].symbols # <<>>
    /\ document.pages[2].symbols = <<>>
    /\ document.pages[2].visual_elements # <<>>
    /\ UnitCount(document.pages[2], "checkboxes") = 0
    /\ UnitCount(document.pages[2], "math") = 0
    /\ Has(LastPageWrites, NoneLineOf["checkboxes"])

\* C5: the report file is opened once per run, is open while the run writes,
\* and is closed in every end state: after normal completion (also when a parse
\* error was caught and skipped on the way) and after an error that left the
\* with block.
ReportFileClosedOnEveryExit ==
    /\ pc \in {"done", "error"} => ~fopen /\ opens = 1
    /\ pc \in {"preamble", "pages", "blobs"} => fopen /\ opens = 1
    /\ pc = "start" => opens = 0
    /\ fopen => opens = 1

\* C5 witness: a batch run that caught a parse error went on writing and was
\* then ended by an uncaught error, with the file closed
ClosedAfterCaughtAndUncaughtError ==
    /\ mode = "batch"
    /\ pc = "error"
    /\ Len(SelectSeq(log, IsErrorLine)) = 1
    /\ Len(SelectSeq(disk, IsPageHeader)) >= 1
    /\ ~fopen

\* the pages whose writes are complete, in input order
WrittenPages ==
    LET good == SelectSeq(Handled, Decodes)
        before == IF mode = "batch"
                  THEN Flatten([i \in DOMAIN good |-> good[i].content.document.pages])
                  ELSE <<>>
        inLoop == pc = "pages" \/ (pc = "done" /\ mode = "single")
    IN  before \o (IF inLoop /\ pi > 1 THEN SubSeq(document.pages, 1, pi - 1) ELSE <<>>)

LanguagesOf(pages) == Flatten([i \in DOMAIN pages |-> pages[i].detected_languages])

DefectsOf(pages) ==
    Flatten([i \in DOMAIN pages |->
        IF pages[i].image_quality_scores.present
        THEN pages[i].image_quality_scores.detected_defects ELSE <<>>])

\* C6: the page headers of the report are, in order and one for one, the page
\* numbers the input pages carry; the language lines and the defect lines are,
\* in order and one for one, the input's languages and defects.
ReportKeepsInputOrder ==
    pc \in {"preamble", "pages", "blobs", "done"} =>
        LET pages   == WrittenPages
            headers == SelectSeq(disk, IsPageHeader)
            langs   == SelectSeq(disk, IsLanguageLine)
            defects == SelectSeq(disk, IsDefectLine)
        IN  /\ Len(headers) = Len(pages)
            /\ \A i \in DOMAIN pages :
                 headers[i] = <<"Page ">> \o ToStr(pages[i].page_number) \o <<":", "\n">>
            /\ Len(langs) = Len(LanguagesOf(pages))
            /\ \A i \in DOMAIN langs :
                 /\ langs[i][2] = LanguagesOf(pages)[i].language_code
                 /\ SubSeq(langs[i], 4, Len(langs[i]) - 5)
                        = ToStr(LanguagesOf(pages)[i].confidence \div 10)
            /\ Len(defects) = Len(DefectsOf(pages))
            /\ \A i \in DOMAIN defects : defects[i][2] = DefectsOf(pages)[i].type_

\* C6 witness: a finished report of two pages numbered 2 then 1, the first
\* with the same language twice, the second with two languages out of
\* alphabetical order, both with two defects
TwoPagesOutOfNumberOrder ==
    /\ mode = "single"
    /\ pc = "done"
    /\ Len(document.pages) = 2
    /\ document.pages[1].page_number = 2
    /\ document.pages[2].page_number = 1
    /\ Len(document.pages[1].detected_languages) = 2
    /\ document.pages[1].detected_languages[1] = document.pages[1].detected_languages[2]
    /\ Len(document.pages[2].detected_languages) = 2
    /\ document.pages[2].detected_languages[1].language_code = "en"
    /\ Len(SelectSeq(disk, IsDefectLine)) = 4
    /\ Len(SelectSeq(disk, IsLanguageLine)) = 4

\* C7: a run that completes leaves the same report as the completed run before
\* it on the same input, and in single-file mode that report is the transcript
\* of the Document whatever the file held before the run.
RerunLeavesSameReport ==
    pc = "done" =>
        /\ prev.set => disk = prev.content
        /\ mode = "single" => disk = Transcript(document)

\* C7 witness: the second completed run on a Document with pages
SecondRunCompleted ==
    /\ mode = "single"
    /\ pc = "done"
    /\ runs = 2
    /\ prev.set
    /\ Len(document.pages) = 2
    /\ Len(disk) > 2

\* the listed object's name, read piece by piece as the claim reads it
NamedLikeResult(name) ==
    /\ name[Len(name)] = ".json"
    /\ name[1] = "out/"
    /\ \A i \in DOMAIN name : name[i] # "generated_workspace"

IsProcessingLine(l) == First(l) = "Processing output file: "

IsSkippingLine(l) == First(l) = "Skipping non-Document file: "

IsVerdictLine(l) == IsProcessingLine(l) \/ IsSkippingLine(l)

ResultContent(blob) == NamedLikeResult(blob.name) /\ blob.content.valid

\* C8: in batch mode every handled object has its own log line, in listing
\* order and with its name: "Processing output file" exactly when its name ends
\* with ".json", lies under the prefix and has no generated_workspace part,
\* "Skipping non-Document file" otherwise; and the report holds one transcript
\* per decodable object so named, nothing from any other object.
OnlyResultFilesAreTranscribed ==
    (mode = "batch" /\ pc \in {"blobs", "done"}) =>
        LET verdicts == SelectSeq(log, IsVerdictLine)
            named    == SelectSeq(Handled, ResultContent)
        IN  /\ Len(verdicts) = Len(Handled)
            /\ \A i \in DOMAIN Handled :
                 /\ NamedIn(verdicts[i], Handled[i].name)
                 /\ IsProcessingLine(verdicts[i]) <=> NamedLikeResult(Handled[i].name)
            /\ Len(SelectSeq(disk, IsDocumentStart)) = Len(named)
            /\ Len(SelectSeq(disk, IsPageHeader))
                 = Len(Flatten([i \in DOMAIN named |-> named[i].content.document.pages]))

\* C8 witness: a finished batch run over a text file, a generated_workspace
\* JSON file and a result file
SkippedTwoProcessedOne ==
    /\ mode = "batch"
    /\ pc = "done"
    /\ Len(blobs) = 3
    /\ blobs[1].name[Len(blobs[1].name)] = ".txt"
    /\ Contains(blobs[2].name, "generated_workspace")
    /\ ResultContent(blobs[3])
    /\ Len(SelectSeq(log, IsSkippingLine)) = 2
    /\ Len(SelectSeq(disk, IsDocumentStart)) = 1

\* the break-type line the claim expects for a token
ExpectedBreakLine(label, token) ==
    <<label, "'">> \o
    <<IF token.detected_break.present
        THEN BreakTypeName[token.detected_break.type_ + 1] ELSE "Unknown">> \o
    <<"'", "\n">>

\* C9: on a page with a token the break-type line of the first (last) token
\* shows the name of the token's break type when the token has a break
\* annotation, and 'Unknown' when it has none.
BreakTypeLineShowsAnnotation ==
    (PageJustWritten /\ JustWritten.tokens # <<>>) =>
        LET tokens == JustWritten.tokens
        IN  /\ Has(LastPageWrites,
                   ExpectedBreakLine("        First token break type: ", tokens[1]))
            /\ Has(LastPageWrites,
                   ExpectedBreakLine("        Last token break type: ", tokens[Len(tokens)]))

\* the section a write belongs to: 0 the preamble, then 1 page number,
\* 2 dimensions, 3 languages, 4 blocks, 5 paragraphs, 6 lines, 7 tokens,
\* 8 symbols, 9 quality scores, 10 visual elements
SectionOf(w) ==
    LET f == First(w)
        l == LastPiece(w)
    IN  CASE f \in {"Full document text: ", "There are "} -> 0
          [] f = "Page " -> 1
          [] f \in {"    Width: ", "    Height: "} -> 2
          [] f = "    Detected languages:" \/ IsLanguageLine(w) -> 3
          [] l = " blocks detected:" \/ f \in {"        First text block: ",
                 "        Last text block: ", "        No blocks detected."} -> 4
          [] l = " paragraphs detected:" \/ f \in {"        First paragraph text: ",
                 "        Last paragraph text: ", "        No paragraphs detected."} -> 5
          [] l = " lines detected:" \/ f \in {"        First line text: ",
                 "        Last line text: ", "        No lines detected."} -> 6
          [] l = " tokens detected:" \/ f \in {"        First token text: ",
                 "        Last token text: ", "        First token break type: ",
                 "        Last token break type: ", "        No tokens detected.",
                 "           Font Size: ", "           Font Type: ", "           Bold: ",
                 "           Italic: ", "           Underlined: ",
                 "           Handwritten: ", "           Text Color (RGBa): "} -> 7
          [] l = " symbols detected:" \/ f \in {"        First symbol text: ",
                 "        Last symbol text: ", "        No symbols detected."} -> 8
          [] f \in {"    Quality score: ", "    Detected defects:"} \/ IsDefectLine(w) -> 9
          [] OTHER -> 10

\* C10: in what a run has written, the report starts with the two preamble
\* writes of a document, every document start is followed by the page-count
\* write, every page header by the dimensions, and from one write to the next
\* the section never goes back except to start a new page or a new document:
\* within a page the sections come in the fixed order and nothing of a page
\* follows the next page header.
SectionsInFixedOrder ==
    opens = 1 =>
        /\ disk # <<>> => IsDocumentStart(disk[1])
        /\ \A i \in 1..(Len(disk) - 1) :
             /\ IsDocumentStart(disk[i]) <=> First(disk[i + 1]) = "There are "
             /\ IsPageHeader(disk[i]) => First(disk[i + 1]) = "    Width: "
             /\ \/ SectionOf(disk[i + 1]) >= SectionOf(disk[i]) /\ SectionOf(disk[i + 1]) > 1
                \/ SectionOf(disk[i + 1]) = 0 /\ SectionOf(disk[i]) = 0
                \/ IsPageHeader(disk[i + 1]) /\ SectionOf(disk[i]) # 1
                \/ IsDocumentStart(disk[i + 1]) /\ SectionOf(disk[i]) # 1
             /\ (SectionOf(disk[i]) = 0 /\ SectionOf(disk[i + 1]) # 0)
                    => IsPageHeader(disk[i + 1])

\* C10 witness: a finished report of two pages in which every one of the ten
\* sections was written
AllSectionsWritten ==
    /\ pc = "done"
    /\ Len(SelectSeq(disk, IsPageHeader)) = 2
    /\ \A sec \in 0..10 : \E i \in DOMAIN disk : SectionOf(disk[i]) = sec

----------------------------------------------------------------------------
(* Claims about the optional sections of a page *)

IsCountLine(w, kind) == LastPiece(w) = CountLabelOf[kind]

\* the page's part of the report holds a line of the symbols section
SymbolsSectionWritten(w) ==
    \/ HasLast(w, CountLabelOf["symbols"])
    \/ HasFirst(w, FirstLabelOf["symbols"])
    \/ HasFirst(w, LastLabelOf["symbols"])
    \/ Has(w, NoneLineOf["symbols"])

\* the page's part of the report holds a line of the quality-score section
QualitySectionWritten(w) ==
    \/ HasFirst(w, "    Quality score: ")
    \/ HasFirst(w, "    Detected defects:")
    \/ \E i \in DOMAIN w : IsDefectLine(w[i])

\* the page's part of the report holds a line of the visual-elements section
VisualSectionWritten(w) ==
    \E kind \in {"checkboxes", "math"} :
        \/ HasLast(w, CountLabelOf[kind])
        \/ HasFirst(w, FirstLabelOf[kind])
        \/ HasFirst(w, LastLabelOf[kind])
        \/ Has(w, NoneLineOf[kind])

\* C11: a page's symbols section is written iff its symbol list is non-empty,
\* its quality-score section iff its image quality scores are present, its
\* visual-elements section iff its visual-element list is non-empty; a section
\* that is not written leaves no line at all.
OptionalSectionsIffDataPresent ==
    PageJustWritten =>
        LET page == JustWritten
            w    == LastPageWrites
        IN  /\ SymbolsSectionWritten(w) <=> page.symbols # <<>>
            /\ QualitySectionWritten(w) <=> page.image_quality_scores.present
            /\ VisualSectionWritten(w) <=> page.visual_elements # <<>>

----------------------------------------------------------------------------
(* Claims about the first/last rendering *)

TextKinds == {"blocks", "paragraphs", "lines", "tokens", "symbols"}

\* the units of a kind on a page, in page order
UnitsOf(page, kind) ==
    CASE kind = "blocks"     -> [i \in DOMAIN page.blocks |-> page.blocks[i].layout]
      [] kind = "paragraphs" -> [i \in DOMAIN page.paragraphs |-> page.paragraphs[i].layout]
      [] kind = "lines"      -> [i \in DOMAIN page.lines |-> page.lines[i].layout]
      [] kind = "tokens"     -> [i \in DOMAIN page.tokens |-> page.tokens[i].layout]
      [] OTHER               -> [i \in DOMAIN page.symbols |-> page.symbols[i].layout]

\* the lines of w that start with the label
Labelled(w, label) == SelectSeq(w, LAMBDA l : First(l) = label)

\* the lines of w that end with the label
Ending(w, label) == SelectSeq(w, LAMBDA l : LastPiece(l) = label)

----------------------------------------------------------------------------
(* Claims about the visual elements *)

\* the positions of the elements whose type tag contains "checkbox"
CheckboxLike(ves) ==
    {i \in DOMAIN ves : \E j \in DOMAIN ves[i].type : ves[i].type[j] = "checkbox"}

\* the positions of the elements whose type tag equals "math_formula"
MathLike(ves) == {i \in DOMAIN ves : ves[i].type = <<"math_formula">>}

SetMin(S) == CHOOSE x \in S : \A y \in S : x <= y

SetMax(S) == CHOOSE x \in S : \A y \in S : x >= y

\* the count lines of a kind in w, as the digits they show
ShownCounts(w, kind) ==
    LET ls == Ending(w, CountLabelOf[kind])
    IN  [i \in DOMAIN ls |-> SubSeq(ls[i], 2, Len(ls[i]) - 2)]

\* C13: when the visual-elements section of a page is written, the checkbox
\* count shown is the number of elements whose type tag contains "checkbox"
\* and the math count shown is the number whose tag equals "math_formula" (a
\* kind without elements shows its "No ... detected." line and no count); an
\* element matching neither test is in neither count and none is in both; the
\* first and last checkbox lines show the type tags of the first and the last
\* checkbox-like element in input order.
VisualElementsCountedByType ==
    (PageJustWritten /\ JustWritten.visual_elements # <<>>) =>
        LET ves == JustWritten.visual_elements
            w   == LastPageWrites
            cb  == CheckboxLike(ves)
            ma  == MathLike(ves)
            c   == Cardinality(cb)
            m   == Cardinality(ma)
        IN  /\ ShownCounts(w, "checkboxes") = (IF c > 0 THEN <<ToStr(c)>> ELSE <<>>)
            /\ ShownCounts(w, "math") = (IF m > 0 THEN <<ToStr(m)>> ELSE <<>>)
            /\ Has(w, NoneLineOf["checkboxes"]) <=> c = 0
            /\ Has(w, NoneLineOf["math"]) <=> m = 0
            /\ cb \cap ma = {}
            /\ c + m = Len(ves) - Cardinality(DOMAIN ves \ (cb \cup ma))
            /\ Labelled(w, FirstLabelOf["checkboxes"]) =
                 (IF c > 0
                  THEN << Line(<<FirstLabelOf["checkboxes"]>> \o Repr(ves[SetMin(cb)].type)) >>
                  ELSE <<>>)
            /\ Labelled(w, LastLabelOf["checkboxes"]) =
                 (IF c > 0
                  THEN << Line(<<LastLabelOf["checkboxes"]>> \o Repr(ves[SetMax(cb)].type)) >>
                  ELSE <<>>)

\* C13 witness: the page written last has two checkbox-like elements with
\* different type tags, shown as count 2 with different first and last lines,
\* and the page before it has one checkbox-like element next to an element
\* that matches neither test, shown as count 1 and no math symbols
TwoCheckboxesAfterOneAndOther ==
    /\ PageJustWritten
    /\ pi = 3
    /\ Cardinality(CheckboxLike(JustWritten.visual_elements)) >= 2
    /\ ShownCounts(LastPageWrites, "checkboxes")
         = <<ToStr(Cardinality(CheckboxLike(JustWritten.visual_elements)))>>
    /\ \E i, j \in DOMAIN LastPageWrites :
          /\ First(LastPageWrites[i]) = FirstLabelOf["checkboxes"]
          /\ First(LastPageWrites[j]) = LastLabelOf["checkboxes"]
          /\ Tail(LastPageWrites[i]) # Tail(LastPageWrites[j])
    /\ LET before == document.pages[1].visual_elements
       IN  /\ Cardinality(CheckboxLike(before)) = 1
           /\ MathLike(before) = {}
           /\ DOMAIN before \ CheckboxLike(before) # {}
    /\ Has(disk, Line(<<"    ", "1", " checkboxes detected:">>))
    /\ Len(SelectSeq(disk, LAMBDA l : l = NoneLineOf["math"])) = 2

----------------------------------------------------------------------------
(* Claims about the entry scripts *)

\* a value that is neither None nor the empty string
NonEmptyId(x) == x # None /\ x # Str("")

\* get_vault_secrets returned a non-empty project id and a non-empty processor id
SecretsRetrieved ==
    secrets.returned /\ NonEmptyId(secrets.project_id) /\ NonEmptyId(secrets.processor_id)

\* the positions at which a run stands after secret retrieval failed
RetrievalFailed == pc \in {"exited", "failed"}

\* C14: in both scripts a step that submits an OCR request, opens the report
\* file or changes its content is taken only in a run to which
\* get_vault_secrets has returned a non-empty project id and a non-empty
\* processor id; a run whose secret retrieval failed (no 'auth' in the
\* authentication response, or (None, None) after an error reading a secret)
\* has submitted no OCR request and opened no report file, and takes no
\* further step, so the report file is neither created nor overwritten.
OcrAndReportOnlyAfterSecrets ==
    [][ /\ (ocr' > ocr \/ opens' > opens \/ (fopen' /\ ~fopen) \/ disk' # disk)
            => SecretsRetrieved
        /\ ~RetrievalFailed
        /\ RetrievalFailed' => (ocr' = 0 /\ opens' = 0 /\ ~fopen' /\ disk' = disk) ]_vars

\* C14 witness: a run ended with "Failed to retrieve Vault secrets." after an
\* error reading a secret gave (None, None), with no OCR request and no
\* opening of the report file, which still holds what an earlier use left
RunFailedOnSecrets ==
    /\ pc = "failed"
    /\ secrets = Got(<<None, None>>)
    /\ Has(log, <<"An error occurred: ", "<exception>">>)
    /\ Has(log, <<"Failed to retrieve Vault secrets.">>)
    /\ ocr = 0
    /\ opens = 0
    /\ ~fopen
    /\ disk = StaleReport

====
